---- MODULE Spec2Model ----
(***************************************************************************)
(* A model of mqttcloudproviderslib: the MessageHub that fans a message    *)
(* out to one adapter per configured cloud provider, the Provider factory, *)
(* and the Aws/Azure/Google adapters with their credentials, publish and   *)
(* on_disconnect handling.  The MQTT session (paho), the schema library,   *)
(* the file system and the clock are the environment: what they answer is  *)
(* chosen nondeterministically among the answers their interface allows.   *)
(***************************************************************************)
EXTENDS Integers, Sequences, FiniteSets, TLC

VARIABLES
    configuration,  \* the configuration handed to MessageHub(...)
    hub,            \* "new" | "constructing" | "ready" | "failed"
    hubError,       \* exception type MessageHub.__init__ raised, or "none"
    built,          \* adapters constructed by the unfinished list comprehension
    providers,      \* MessageHub._providers, once __init__ has returned
    connects,       \* session.connect calls made, in order: index of the record
    now,            \* the last reading of the clock, in ticks
    bc,             \* the frame of the _broadcast call in progress
    events,         \* number of broadcast calls and disconnect events so far
    callback,       \* the frame of the on_disconnect call just made
    factory,        \* what the last direct Provider(...) call did
    formatted       \* what the last direct _get_topic(...) call returned

vars == <<configuration, hub, hubError, built, providers, connects, now, bc,
          events, callback, factory, formatted>>

----------------------------------------------------------------------------
\* Bounds of the model.

MaxProviders == 2
MaxClock == 2
MaxEvents == 2
TicksPerSecond == 2
MaxPoolAdapters == 27

\* Program constants.

max_workers == 25
expiry == 3600
exp_minutes == 60

----------------------------------------------------------------------------
\* Values.

None == [tag |-> "None"]
Bool(b) == [tag |-> "bool", b |-> b]
Str(s) == [tag |-> "str", s |-> s]
Dict(items) == [tag |-> "dict", items |-> items]
Raised(type) == [tag |-> "exc", type |-> type]
Future == [tag |-> "Future"]

DeviceNames == {"d1"}
ProviderNames == {"aws", "azure", "google", "gcp"}

\* The messages a caller may broadcast: the empty mapping, a mapping of
\* JSON values, and a mapping holding a value json cannot serialize.
Item(k, t, v) == [k |-> k, t |-> t, v |-> v]
Messages ==
    { Dict(<<>>),
      Dict(<<Item("temperature", "int", 21)>>),
      Dict(<<Item("x", "set", 0)>>) }
Topics == {"", "status"}

\* Python truth value of an argument (bool(x)).
Truthy(x) ==
    CASE x.tag = "None" -> FALSE
      [] x.tag = "bool" -> x.b
      [] x.tag = "str" -> x.s # ""
      [] x.tag = "dict" -> Len(x.items) > 0
      [] OTHER -> TRUE

\* json.dumps(message): the text, or TypeError for a non-JSON value.
RECURSIVE dumps_items(_)
dumps_items(items) ==
    IF Len(items) = 0 THEN ""
    ELSE "\"" \o Head(items).k \o "\": " \o ToString(Head(items).v)
         \o (IF Len(items) > 1 THEN ", " ELSE "")
         \o dumps_items(Tail(items))

json_dumps(message) ==
    IF \E i \in DOMAIN message.items : message.items[i].t # "int"
    THEN Raised("TypeError")
    ELSE Str("{" \o dumps_items(message.items) \o "}")

----------------------------------------------------------------------------
\* Schemas.

PROVIDERS_SCHEMA(data) == data.name \in {"azure", "aws", "google"}

CONFIGURATION_SCHEMA(config) ==
    /\ config.device_name # ""
    /\ \A i \in DOMAIN config.providers : PROVIDERS_SCHEMA(config.providers[i])

----------------------------------------------------------------------------
\* Credentials.  The clock is read in ticks; time.time() is truncated to
\* whole seconds by int(), datetime.utcnow() keeps the clock's resolution.

AwsAdapter_get_ssl_context ==
    [kind |-> "tls", expiry |-> 0]

AzureAdapter_generate_sas_token(clock) ==
    [kind |-> "sas", expiry |-> (clock \div TicksPerSecond) + expiry]

GoogleAdapter_create_jwt(clock) ==
    [kind |-> "jwt", expiry |-> clock + exp_minutes * 60 * TicksPerSecond]

----------------------------------------------------------------------------
\* Adapter construction.  env is what the environment answers:
\*   key       TRUE when the key file can be read
\*   tls       TRUE when the TLS material loads
\*   connect   "ok" (returns 0) | "failure" (returns non-zero) | "raise"
\* The result says whether an adapter was built (ok), the exception type
\* otherwise (error), and whether an mqtt.Client was created (session) and
\* connect was called on it (connected).

Envs == [key : BOOLEAN, tls : BOOLEAN, connect : {"ok", "failure", "raise"}]

\* The answers that matter to the construction of data: AwsAdapter reads no
\* key file on its own (its key is part of the TLS material).
EnvsFor(data) ==
    {env \in Envs : data.name \in {"azure", "google"} \/ env.key}

Adapter(kind, device_name, credential) ==
    [kind |-> kind, device_name |-> device_name, session |-> "Connected",
     credential |-> credential]

Built(adapter) ==
    [ok |-> TRUE, error |-> "none", adapter |-> adapter,
     session |-> TRUE, connected |-> TRUE]

Failed(type, session, connected) ==
    [ok |-> FALSE, error |-> type, adapter |-> None,
     session |-> session, connected |-> connected]

\* The tail shared by the three _get_mqtt_client: connect, then return the
\* client or raise ProviderInstantiationError.
Connect(kind, device_name, credential, env) ==
    IF env.connect = "ok"
    THEN Built(Adapter(kind, device_name, credential))
    ELSE Failed("ProviderInstantiationError", TRUE, TRUE)

AwsAdapter(device_name, clock, env) ==
    IF ~env.tls
    THEN Failed("ProviderInstantiationError", TRUE, FALSE)
    ELSE Connect("Aws", device_name, AwsAdapter_get_ssl_context, env)

AzureAdapter(device_name, clock, env) ==
    IF ~env.key
    THEN Failed("FileNotFoundError", FALSE, FALSE)
    ELSE IF ~env.tls
    THEN Failed("ProviderInstantiationError", TRUE, FALSE)
    ELSE Connect("Azure", device_name, AzureAdapter_generate_sas_token(clock), env)

GoogleAdapter(device_name, clock, env) ==
    IF ~env.key \/ ~env.tls
    THEN Failed("ProviderInstantiationError", TRUE, FALSE)
    ELSE Connect("Google", device_name, GoogleAdapter_create_jwt(clock), env)

\* str.title() on the provider names of the schema.
title(name) ==
    CASE name = "aws" -> "Aws"
      [] name = "azure" -> "Azure"
      [] name = "google" -> "Google"
      [] OTHER -> "Gcp"

\* Provider.__new__ without its try/except: validate, look the class
\* f'{provider.title()}Adapter' up and construct it.
ProviderBody(device_name, data, clock, env) ==
    IF ~PROVIDERS_SCHEMA(data)
    THEN Failed("SchemaError", FALSE, FALSE)
    ELSE LET adapter == title(data.name) \o "Adapter"
         IN  CASE adapter = "AwsAdapter" -> AwsAdapter(device_name, clock, env)
               [] adapter = "AzureAdapter" -> AzureAdapter(device_name, clock, env)
               [] adapter = "GoogleAdapter" -> GoogleAdapter(device_name, clock, env)
               [] OTHER -> Failed("AttributeError", FALSE, FALSE)

ProviderLeaking(device_name, data, clock, env) ==
    ProviderBody(device_name, data, clock, env)

Provider(device_name, data, clock, env) ==
    LET r == ProviderBody(device_name, data, clock, env)
    IN  IF r.ok THEN r
        ELSE Failed("ProviderInstantiationError", r.session, r.connected)

----------------------------------------------------------------------------
\* Topics.

device_location == "devices"

\* The AWS topic with no separator after the base path when no subtopic
\* is given.
AwsAdapter_get_topic_bare(adapter, topic) ==
    device_location \o "/" \o adapter.device_name \o "/events"
        \o (IF Truthy(topic) THEN "/" \o topic.s ELSE "")

AwsAdapter_get_topic(adapter, topic) ==
    device_location \o "/" \o adapter.device_name \o "/events/"
        \o (IF Truthy(topic) THEN topic.s ELSE "")

AzureAdapter_get_topic(adapter, topic) ==
    LET t == IF Truthy(topic) THEN "topic=" \o topic.s ELSE ""
    IN  "devices/" \o adapter.device_name \o "/messages/events/" \o t

\* The Google topic made to depend on the state of the adapter: a session
\* that was given a later credential publishes under another path.
GoogleAdapter_get_topic_by_state(adapter, topic) ==
    "/devices/" \o adapter.device_name
        \o (IF adapter.credential.expiry > exp_minutes * 60 * TicksPerSecond
            THEN "/state/" ELSE "/events/")
        \o (IF Truthy(topic) THEN topic.s ELSE "")

GoogleAdapter_get_topic(adapter, topic) ==
    "/devices/" \o adapter.device_name \o "/events/"
        \o (IF Truthy(topic) THEN topic.s ELSE "")

get_topic(adapter, topic) ==
    CASE adapter.kind = "Aws" -> AwsAdapter_get_topic(adapter, topic)
      [] adapter.kind = "Azure" -> AzureAdapter_get_topic(adapter, topic)
      [] adapter.kind = "Google" -> GoogleAdapter_get_topic(adapter, topic)

----------------------------------------------------------------------------
\* Publishing.  answer is what the session does with the publish:
\*   "published"  publish returns and is_published() is True
\*   "queued"     publish returns and is_published() is False
\*   "raise"      publish or is_published raises
\* A session that is not connected never reports a message published.
\* The result is what the call returned or raised and what the session was
\* handed and sent (handed).

SessionAnswers(adapter) ==
    IF adapter.session = "Connected"
    THEN {"published", "queued", "raise"}
    ELSE {"queued", "raise"}

Returned(value, handed) == [result |-> value, handed |-> handed]

BaseAdapter_publish(adapter, message, topic, answer) ==
    LET t == get_topic(adapter, topic)
        payload == json_dumps(message)
    IN  IF payload.tag = "exc" \/ answer = "raise"
        THEN Returned(None, <<>>)
        ELSE IF answer = "published"
        THEN Returned(Bool(TRUE), <<[topic |-> t, payload |-> payload.s]>>)
        ELSE Returned(Bool(FALSE), <<>>)

publish(adapter, message, answer) ==
    BaseAdapter_publish(adapter, message, None, answer)

publish_to_subtopic(adapter, message, topic, answer) ==
    BaseAdapter_publish(adapter, message, topic, answer)

\* getattr(provider, method_name)(*arguments): a call with the wrong number
\* of positional arguments raises TypeError before the method body runs.
Invoke(adapter, method_name, arguments, answer) ==
    IF method_name = "publish"
    THEN IF Len(arguments) = 1
         THEN publish(adapter, arguments[1], answer)
         ELSE Returned(Raised("TypeError"), <<>>)
    ELSE IF Len(arguments) = 2
         THEN publish_to_subtopic(adapter, arguments[1], arguments[2], answer)
         ELSE Returned(Raised("TypeError"), <<>>)

----------------------------------------------------------------------------
\* The hub's fan-out.

\* arguments = [argument for argument in (message, topic) if argument]
Arguments(message, topic) ==
    SelectSeq(<<message, topic>>, Truthy)

\* executor.submit: the pool starts a worker for the task while it has fewer
\* than max_workers of them; a later task waits in the queue.
Submitted(i) ==
    [state |-> IF i <= max_workers THEN "running" ELSE "pending",
     result |-> None, handed |-> <<>>]

\* The aggregate as all(future.result() for future in futures) would give
\* it: result() raises again what the task raised.
AggregateResults(futures) ==
    IF \E i \in DOMAIN futures : futures[i].result.tag = "exc"
    THEN [kind |-> "raised", value |-> FALSE]
    ELSE [kind |-> "returned",
          value |-> \A i \in DOMAIN futures : Truthy(futures[i].result)]

\* all(list(as_completed(futures))): the truth of the Future objects.
Aggregate(futures) ==
    [kind |-> "returned", value |-> \A i \in DOMAIN futures : Truthy(Future)]

----------------------------------------------------------------------------
\* on_disconnect.  The session delivers the event once the connection is
\* gone.  env is what the environment answers during the handler:
\*   key        TRUE when the Google private key file can still be read
\*   reconnect  "ok" (connected again) | "failure" (reconnect returns a
\*              non-zero code) | "raise" (reconnect raises, e.g. OSError)
\* The result is the adapter afterwards, the exception type the handler
\* let escape ("none" when it returned) and the reconnect calls it made.

DisconnectEnvs == [key : BOOLEAN, reconnect : {"ok", "failure", "raise"}]

\* The answers that matter to a handler: only GoogleAdapter opens a key
\* file, and a handler given return code 0 asks the environment nothing.
DisconnectEnvsFor(adapter, return_code) ==
    {env \in DisconnectEnvs :
        /\ adapter.kind = "Google" \/ env.key
        /\ return_code # 0 \/ (env.key /\ env.reconnect = "ok")}
ReturnCodes == {0, 1}

Handled(adapter, raised, attempts) ==
    [adapter |-> adapter, raised |-> raised, attempts |-> attempts]

\* self._mqtt_client.reconnect()
Reconnect(adapter, env) ==
    Handled([adapter EXCEPT
                !.session = IF env.reconnect = "ok" THEN "Connected" ELSE @],
            IF env.reconnect = "raise" THEN "OSError" ELSE "none",
            1)

AwsAdapter_on_disconnect(adapter, return_code, clock, env) ==
    IF return_code # 0
    THEN Reconnect(adapter, env)
    ELSE Handled(adapter, "none", 0)

\* The Azure handler without its test of return_code.
AzureAdapter_on_disconnect_always(adapter, return_code, clock, env) ==
    Reconnect([adapter EXCEPT
                  !.credential = AzureAdapter_generate_sas_token(clock)],
              env)

AzureAdapter_on_disconnect(adapter, return_code, clock, env) ==
    IF return_code # 0
    THEN Reconnect([adapter EXCEPT
                       !.credential = AzureAdapter_generate_sas_token(clock)],
                   env)
    ELSE Handled(adapter, "none", 0)

\* The Google handler reconnecting with the password it already has.
GoogleAdapter_on_disconnect_stale(adapter, return_code, clock, env) ==
    IF return_code # 0
    THEN IF ~env.key
         THEN Handled(adapter, "FileNotFoundError", 0)
         ELSE Reconnect(adapter, env)
    ELSE Handled(adapter, "none", 0)

GoogleAdapter_on_disconnect(adapter, return_code, clock, env) ==
    IF return_code # 0
    THEN IF ~env.key
         THEN Handled(adapter, "FileNotFoundError", 0)
         ELSE Reconnect([adapter EXCEPT
                            !.credential = GoogleAdapter_create_jwt(clock)],
                        env)
    ELSE Handled(adapter, "none", 0)

on_disconnect(adapter, return_code, clock, env) ==
    CASE adapter.kind = "Aws" ->
             AwsAdapter_on_disconnect(adapter, return_code, clock, env)
      [] adapter.kind = "Azure" ->
             AzureAdapter_on_disconnect(adapter, return_code, clock, env)
      [] adapter.kind = "Google" ->
             GoogleAdapter_on_disconnect(adapter, return_code, clock, env)

----------------------------------------------------------------------------
\* The state machine.

Configurations ==
    [device_name : DeviceNames,
     providers : UNION {[1..n -> [name : ProviderNames]] : n \in 0..MaxProviders}]

Idle ==
    [pc |-> "idle", method |-> "", message |-> None, topic |-> None,
     arguments |-> <<>>, futures |-> <<>>, outcome |-> None]

NoCallback ==
    [pc |-> "idle", adapter |-> 0, return_code |-> 0, before |-> None,
     others |-> TRUE, raised |-> "none", attempts |-> 0]

NoFactory ==
    [called |-> FALSE, data |-> None, env |-> None,
     result |-> Failed("none", FALSE, FALSE)]

NoTopic == [called |-> FALSE, kind |-> "", device_name |-> "", topic |-> None,
            result |-> ""]

Init ==
    /\ configuration \in Configurations
    /\ hub = "new"
    /\ hubError = "none"
    /\ built = <<>>
    /\ providers = <<>>
    /\ connects = <<>>
    /\ now = 0
    /\ bc = Idle
    /\ events = 0
    /\ callback = NoCallback
    /\ factory = NoFactory
    /\ formatted = NoTopic

\* The clock readings an operation starting now may get: the clock never
\* runs backwards, and any amount of time may have passed since the last
\* reading.
Readings == now..MaxClock

\* AwsAdapter never reads the clock, the others read it when they build
\* a credential.
ReadingsFor(kind, refresh) ==
    IF kind # "aws" /\ refresh THEN Readings ELSE {now}

\* A caller uses the factory directly, outside any hub.
ProviderCall ==
    /\ hub = "new"
    /\ \E data \in [name : ProviderNames] :
       \E env \in EnvsFor(data), clock \in ReadingsFor(data.name, TRUE) :
         /\ now' = clock
         /\ factory' = [called |-> TRUE, data |-> data, env |-> env,
                        result |-> Provider(configuration.device_name, data,
                                            clock, env)]
    /\ UNCHANGED <<configuration, hub, hubError, built, providers, connects,
                   bc, events, callback, formatted>>

\* MessageHub.__init__, line 72: validation of the configuration.
MessageHubValidate ==
    /\ hub = "new"
    /\ IF CONFIGURATION_SCHEMA(configuration)
       THEN /\ hub' = IF Len(configuration.providers) = 0
                      THEN "ready" ELSE "constructing"
            /\ hubError' = "none"
       ELSE /\ hub' = "failed"
            /\ hubError' = "SchemaError"
    /\ UNCHANGED <<configuration, built, providers, connects, now, bc,
                   events, callback, factory, formatted>>

\* The list comprehension as a loop that skips a provider it cannot build.
MessageHubProviderBestEffort ==
    /\ hub = "constructing"
    /\ \E env \in EnvsFor(configuration.providers[Len(built) + 1]),
          clock \in ReadingsFor(configuration.providers[Len(built) + 1].name,
                                TRUE) :
         LET i == Len(built) + 1
             r == Provider(configuration.device_name,
                           configuration.providers[i], clock, env)
         IN  /\ now' = clock
             /\ connects' = IF r.connected THEN Append(connects, i) ELSE connects
             /\ hubError' = "none"
             /\ IF r.ok
                THEN IF i = Len(configuration.providers)
                     THEN /\ hub' = "ready"
                          /\ providers' = Append(built, r.adapter)
                          /\ built' = <<>>
                     ELSE /\ hub' = "constructing"
                          /\ providers' = providers
                          /\ built' = Append(built, r.adapter)
                ELSE /\ hub' = "ready"
                     /\ providers' = built
                     /\ built' = <<>>
    /\ UNCHANGED <<configuration, bc, events, callback, factory,
                   formatted>>

\* The list built by inserting each adapter at the front.
MessageHubProviderReversed ==
    /\ hub = "constructing"
    /\ \E env \in EnvsFor(configuration.providers[Len(built) + 1]),
          clock \in ReadingsFor(configuration.providers[Len(built) + 1].name,
                                TRUE) :
         LET i == Len(built) + 1
             r == Provider(configuration.device_name,
                           configuration.providers[i], clock, env)
         IN  /\ now' = clock
             /\ connects' = IF r.connected THEN Append(connects, i) ELSE connects
             /\ IF r.ok
                THEN /\ hubError' = "none"
                     /\ IF i = Len(configuration.providers)
                        THEN /\ hub' = "ready"
                             /\ providers' = <<r.adapter>> \o built
                             /\ built' = <<>>
                        ELSE /\ hub' = "constructing"
                             /\ providers' = providers
                             /\ built' = <<r.adapter>> \o built
                ELSE /\ built' = built
                     /\ hub' = "failed"
                     /\ hubError' = r.error
                     /\ providers' = providers
    /\ UNCHANGED <<configuration, bc, events, callback, factory,
                   formatted>>

\* The list comprehension with a cleanup: when a round raises, the
\* sessions opened by the rounds before it are disconnected.
MessageHubProviderCleanup ==
    /\ hub = "constructing"
    /\ \E env \in EnvsFor(configuration.providers[Len(built) + 1]),
          clock \in ReadingsFor(configuration.providers[Len(built) + 1].name,
                                TRUE) :
         LET i == Len(built) + 1
             r == Provider(configuration.device_name,
                           configuration.providers[i], clock, env)
         IN  /\ now' = clock
             /\ connects' = IF r.connected THEN Append(connects, i) ELSE connects
             /\ IF r.ok
                THEN /\ hubError' = "none"
                     /\ IF i = Len(configuration.providers)
                        THEN /\ hub' = "ready"
                             /\ providers' = Append(built, r.adapter)
                             /\ built' = <<>>
                        ELSE /\ hub' = "constructing"
                             /\ providers' = providers
                             /\ built' = Append(built, r.adapter)
                ELSE /\ built' = [k \in DOMAIN built |->
                                     [built[k] EXCEPT !.session = "Disconnected"]]
                     /\ hub' = "failed"
                     /\ hubError' = r.error
                     /\ providers' = providers
    /\ UNCHANGED <<configuration, bc, events, callback, factory, formatted>>

\* MessageHub.__init__, lines 74-75: one round of the list comprehension.
\* The list is bound to self._providers only when every round succeeded;
\* built is the list under construction, and what is left of it when a
\* round raised.
MessageHubProvider ==
    /\ hub = "constructing"
    /\ \E env \in EnvsFor(configuration.providers[Len(built) + 1]),
          clock \in ReadingsFor(configuration.providers[Len(built) + 1].name,
                                TRUE) :
         LET i == Len(built) + 1
             r == Provider(configuration.device_name,
                           configuration.providers[i], clock, env)
         IN  /\ now' = clock
             /\ connects' = IF r.connected THEN Append(connects, i) ELSE connects
             /\ IF r.ok
                THEN /\ hubError' = "none"
                     /\ IF i = Len(configuration.providers)
                        THEN /\ hub' = "ready"
                             /\ providers' = Append(built, r.adapter)
                             /\ built' = <<>>
                        ELSE /\ hub' = "constructing"
                             /\ providers' = providers
                             /\ built' = Append(built, r.adapter)
                ELSE /\ built' = built
                     /\ hub' = "failed"
                     /\ hubError' = r.error
                     /\ providers' = providers
    /\ UNCHANGED <<configuration, bc, events,
                   callback, factory,
                   formatted>>

\* A frame that has ended (a _broadcast that returned, a handler that is
\* over) is dropped before anything else happens: nothing reads it, so the
\* order of dropping it and any other step makes no difference.
Settled ==
    /\ bc.pc # "returned"
    /\ callback.pc # "done"

\* MessageHub._broadcast, lines 78-80: the arguments and the submits.
Dispatch(method_name, message, topic) ==
    /\ hub = "ready"
    /\ Settled
    /\ bc.pc = "idle"
    /\ events < MaxEvents
    /\ events' = events + 1
    /\ bc' = [pc |-> "running", method |-> method_name, message |-> message,
              topic |-> topic, arguments |-> Arguments(message, topic),
              futures |-> [i \in DOMAIN providers |-> Submitted(i)],
              outcome |-> None]
    /\ UNCHANGED <<configuration, hub, hubError, built, providers, connects,
                   now, callback, factory,
                   formatted>>

broadcast ==
    \E message \in Messages : Dispatch("publish", message, None)

broadcast_to_subtopic ==
    \E message \in Messages, topic \in Topics :
        Dispatch("publish_to_subtopic", message, Str(topic))

\* The worker runs getattr(provider, method_name)(*arguments); the future
\* holds what the call returned or raised.
FinishTask ==
    /\ bc.pc = "running"
    /\ Settled
    /\ \E i \in DOMAIN bc.futures :
         /\ bc.futures[i].state = "running"
         /\ \E answer \in SessionAnswers(providers[i]) :
              LET r == Invoke(providers[i], bc.method, bc.arguments, answer)
              IN  bc' = [bc EXCEPT !.futures[i] =
                            [state |-> "finished", result |-> r.result,
                             handed |-> r.handed]]
    /\ UNCHANGED <<configuration, hub, hubError, built, providers, connects,
                   now, events, callback, factory,
                   formatted>>

\* A _broadcast that stops waiting at the first task that did not succeed.
ReturnOnFirstFailure ==
    /\ bc.pc = "running"
    /\ Settled
    /\ \/ \A i \in DOMAIN bc.futures : bc.futures[i].state = "finished"
       \/ \E i \in DOMAIN bc.futures :
             /\ bc.futures[i].state = "finished"
             /\ ~Truthy(bc.futures[i].result)
    /\ bc' = [bc EXCEPT !.pc = "returned", !.outcome = Aggregate(bc.futures)]
    /\ UNCHANGED <<configuration, hub, hubError, built, providers, connects,
                   now, events, callback, factory, formatted>>

\* MessageHub._broadcast, lines 79-81: the with block has joined every
\* worker; the aggregate is computed and returned.
Return ==
    /\ bc.pc = "running"
    /\ Settled
    /\ \A i \in DOMAIN bc.futures : bc.futures[i].state = "finished"
    /\ bc' = [bc EXCEPT !.pc = "returned", !.outcome = Aggregate(bc.futures)]
    /\ UNCHANGED <<configuration, hub, hubError, built, providers, connects,
                   now, events, callback, factory,
                   formatted>>

\* The caller has the value _broadcast returned; the frame is gone.
Returned_to_caller ==
    /\ bc.pc = "returned"
    /\ bc' = Idle
    /\ UNCHANGED <<configuration, hub, hubError, built, providers, connects,
                   now, events, callback, factory,
                   formatted>>

\* The session of adapter i lost its connection and calls the handler of
\* that adapter on the thread that noticed the loss: from here until
\* HandleDisconnect the handler is in progress.  The constructors run no network loop, so
\* events reach the handlers of a hub only once it is built.
Disconnect ==
    /\ hub = "ready"
    /\ Settled
    /\ callback.pc = "idle"
    /\ events < MaxEvents
    /\ \E i \in DOMAIN providers, return_code \in ReturnCodes :
         /\ providers[i].session = "Connected"
         /\ providers' = [providers EXCEPT ![i].session = "Disconnected"]
         /\ callback' = [NoCallback EXCEPT
                            !.pc = "handling", !.adapter = i,
                            !.return_code = return_code,
                            !.before = providers[i].credential]
    /\ events' = events + 1
    /\ UNCHANGED <<configuration, hub, hubError, built, connects, now, bc,
                   factory, formatted>>

\* The handler with the credential kept in one place for all adapters of
\* a cloud: what one handler builds, every adapter of that cloud gets.
HandleDisconnectShared ==
    /\ callback.pc = "handling"
    /\ Settled
    /\ LET i == callback.adapter
       IN  \E env \in DisconnectEnvsFor(providers[i], callback.return_code),
              clock \in ReadingsFor(configuration.providers[i].name,
                                    callback.return_code # 0) :
             LET h == on_disconnect(providers[i], callback.return_code,
                                    clock, env)
             IN  /\ now' = clock
                 /\ providers' =
                        [j \in DOMAIN providers |->
                            IF j = i THEN h.adapter
                            ELSE IF providers[j].kind = h.adapter.kind
                            THEN [providers[j] EXCEPT
                                     !.credential = h.adapter.credential]
                            ELSE providers[j]]
                 /\ callback' =
                        [callback EXCEPT
                            !.pc = "done",
                            !.others = \A j \in DOMAIN providers :
                                          j # i => providers'[j] = providers[j],
                            !.raised = h.raised, !.attempts = h.attempts]
    /\ UNCHANGED <<configuration, hub, hubError, built, connects, bc, events,
                   factory, formatted>>

\* The handler runs to its end: it returns or lets an exception escape.
\* Nothing in the adapter makes a publish wait for it.
HandleDisconnect ==
    /\ callback.pc = "handling"
    /\ Settled
    /\ LET i == callback.adapter
       IN  \E env \in DisconnectEnvsFor(providers[i], callback.return_code),
              clock \in ReadingsFor(configuration.providers[i].name,
                                    callback.return_code # 0) :
             LET h == on_disconnect(providers[i], callback.return_code,
                                    clock, env)
             IN  /\ now' = clock
                 /\ providers' = [providers EXCEPT ![i] = h.adapter]
                 /\ callback' =
                        [callback EXCEPT
                            !.pc = "done",
                            !.others = \A j \in DOMAIN providers :
                                          j # i => providers'[j] = providers[j],
                            !.raised = h.raised, !.attempts = h.attempts]
    /\ UNCHANGED <<configuration, hub, hubError, built, connects, bc, events,
                   factory, formatted>>

\* The session's thread is past the callback; the frame is gone.
Callback_over ==
    /\ callback.pc = "done"
    /\ callback' = NoCallback
    /\ UNCHANGED <<configuration, hub, hubError, built, providers, connects,
                   now, bc, events, factory,
                   formatted>>

Next ==
    \/ MessageHubValidate
    \/ MessageHubProvider
    \/ broadcast
    \/ broadcast_to_subtopic
    \/ FinishTask
    \/ Return
    \/ Returned_to_caller
    \/ Disconnect
    \/ HandleDisconnect
    \/ Callback_over

Spec == Init /\ [][Next]_vars

\* The factory used on its own.
FactoryNext ==
    \/ ProviderCall

FactorySpec == Init /\ [][FactoryNext]_vars

\* The pool of one _broadcast with more adapters than workers.  The hub is
\* taken as built, from a configuration of n AWS records, every session
\* connected.
PoolAdapters == 0..MaxPoolAdapters

PoolInit ==
    /\ \E n \in PoolAdapters :
         /\ configuration = [device_name |-> "d1",
                             providers |-> [i \in 1..n |-> [name |-> "aws"]]]
         /\ providers = [i \in 1..n |->
                            Adapter("Aws", "d1", AwsAdapter_get_ssl_context)]
         /\ connects = [i \in 1..n |-> i]
    /\ hub = "ready"
    /\ hubError = "none"
    /\ built = <<>>
    /\ now = 0
    /\ bc = Idle
    /\ events = 0
    /\ callback = NoCallback
    /\ factory = NoFactory
    /\ formatted = NoTopic

\* The tasks a worker is running.
Running(futures) == {i \in DOMAIN futures : futures[i].state = "running"}

\* The tasks waiting in the queue of the pool.
Pending(futures) == {i \in DOMAIN futures : futures[i].state = "pending"}

Oldest(tasks) == CHOOSE i \in tasks : \A j \in tasks : i <= j
Youngest(tasks) == CHOOSE i \in tasks : \A j \in tasks : i >= j

\* A pool that hands a queued task to a new worker whether or not it has
\* max_workers of them already.
StartTaskUncapped ==
    /\ bc.pc = "running"
    /\ Pending(bc.futures) # {}
    /\ bc' = [bc EXCEPT !.futures[Oldest(Pending(bc.futures))].state = "running"]
    /\ UNCHANGED <<configuration, hub, hubError, built, providers, connects,
                   now, events, callback, factory, formatted>>

\* A worker that has ended its task takes the next one from the queue,
\* which is first in, first out.
StartTask ==
    /\ bc.pc = "running"
    /\ Pending(bc.futures) # {}
    /\ Cardinality(Running(bc.futures)) < max_workers
    /\ bc' = [bc EXCEPT !.futures[Oldest(Pending(bc.futures))].state = "running"]
    /\ UNCHANGED <<configuration, hub, hubError, built, providers, connects,
                   now, events, callback, factory, formatted>>

\* A running task ends.  The pool does not look at what a task does, and
\* the tasks of PoolSpec are alike: the first or the last started of the
\* running tasks ends, its session publishing the message.
PoolFinishTask ==
    /\ bc.pc = "running"
    /\ Running(bc.futures) # {}
    /\ \E i \in {Oldest(Running(bc.futures)), Youngest(Running(bc.futures))} :
         LET r == Invoke(providers[i], bc.method, bc.arguments, "published")
         IN  bc' = [bc EXCEPT !.futures[i] =
                       [state |-> "finished", result |-> r.result,
                        handed |-> r.handed]]
    /\ UNCHANGED <<configuration, hub, hubError, built, providers, connects,
                   now, events, callback, factory, formatted>>

PoolNext ==
    \/ broadcast
    \/ StartTask
    \/ PoolFinishTask
    \/ Return
    \/ Returned_to_caller

\* A worker thread that is free takes a queued task at once, and the
\* proviso of the claim is that every publish ends.
PoolSpec ==
    /\ PoolInit
    /\ [][PoolNext]_vars
    /\ WF_vars(StartTask)
    /\ WF_vars(PoolFinishTask)

\* _get_topic used on its own: a caller formats the topic of any adapter,
\* for any device name, with the topic publish passes (None) or one
\* publish_to_subtopic may pass.
TopicDeviceNames == {"d1", "sensor-2"}
TopicArguments == {None, Str(""), Str("status"), Str("a/b")}

TopicAdapters ==
    UNION {{Adapter("Aws", d, AwsAdapter_get_ssl_context),
            Adapter("Azure", d, AzureAdapter_generate_sas_token(0)),
            Adapter("Google", d, GoogleAdapter_create_jwt(0))} :
           d \in TopicDeviceNames}

GetTopicCall ==
    /\ \E adapter \in TopicAdapters, topic \in TopicArguments :
         formatted' = [called |-> TRUE, kind |-> adapter.kind,
                       device_name |-> adapter.device_name, topic |-> topic,
                       result |-> get_topic(adapter, topic)]
    /\ UNCHANGED <<configuration, hub, hubError, built, providers, connects,
                   now, bc, events, callback, factory>>

TopicNext ==
    \/ GetTopicCall

TopicSpec == Init /\ [][TopicNext]_vars

----------------------------------------------------------------------------
\* Properties.

IsTrue(value) == value.tag = "bool" /\ value.b

\* The number of positional arguments the method takes besides self.
Arity(method_name) == IF method_name = "publish" THEN 1 ELSE 2

\* The adapter the callback frame is about.
Handler == providers[callback.adapter]

\* The call in the frame hands each method the arguments it takes.
WellFormedCall == Len(bc.arguments) = Arity(bc.method)

\* C1: broadcast (and broadcast_to_subtopic) returns true if and only if
\* every adapter's publish call made for it returned true; with no adapter
\* it returns true.
C1_BroadcastIffAllTrue ==
    (bc.pc = "returned" /\ WellFormedCall) =>
        /\ bc.outcome.kind = "returned"
        /\ bc.outcome.value =
               (\A i \in DOMAIN bc.futures : IsTrue(bc.futures[i].result))

\* C2: within one broadcast a failing publish stops no other publish: when
\* the broadcast returns every task has run to its end, an adapter whose
\* publish succeeded has handed the message to its session, one whose
\* publish failed has not, and with a failure the aggregate is false.
C2_FailureIsolatedAndReported ==
    bc.pc = "returned" =>
        \A i, j \in DOMAIN bc.futures :
            (IsTrue(bc.futures[i].result) /\ ~IsTrue(bc.futures[j].result)) =>
                /\ bc.futures[j].state = "finished"
                /\ Len(bc.futures[i].handed) = 1
                /\ Len(bc.futures[j].handed) = 0
                /\ bc.outcome.kind = "returned"
                /\ bc.outcome.value = FALSE

\* C3: publish and publish_to_subtopic, called with the arguments they
\* take, never raise and return a boolean: false when serialization or the
\* session raises, the session's is_published() otherwise.
C3_PublishReturnsBoolean ==
    \A i \in DOMAIN bc.futures :
        (bc.futures[i].state = "finished" /\ WellFormedCall)
        => bc.futures[i].result.tag = "bool"

\* C4: broadcast and broadcast_to_subtopic never raise, whatever the
\* message, the topic, the number of adapters and the outcome of each
\* task, a task that raised in the pool included: the call ends by
\* returning a boolean, and while it runs it can always take its next step.
C4_BroadcastNeverRaises ==
    /\ bc.pc = "returned" =>
           /\ bc.outcome.kind = "returned"
           /\ bc.outcome.value \in BOOLEAN
    /\ (bc.pc = "running" /\ callback.pc = "idle") =>
           ENABLED (FinishTask \/ Return)

\* C4 witness: a broadcast has returned although a task raised in the pool.
C4_Witness ==
    /\ bc.pc = "returned"
    /\ Len(bc.futures) >= 2
    /\ \E i \in DOMAIN bc.futures : bc.futures[i].result.tag = "exc"

\* C5 as claimed: a non-zero return code makes the handler resupply the
\* credential and make exactly one reconnect attempt; return code zero
\* makes no attempt and leaves the credential unchanged.
C5_ExactlyOneReconnect ==
    callback.pc = "done" =>
        IF callback.return_code # 0
        THEN callback.attempts = 1
        ELSE callback.attempts = 0 /\ Handler.credential = callback.before

\* C5 as amended: with a non-zero return code the handler rebuilds the
\* credential its cloud uses and then makes exactly one reconnect attempt,
\* except that a Google handler whose key file cannot be read ends with
\* that exception, the credential unchanged and no attempt made; with
\* return code zero no attempt is made and the credential is unchanged.
C5_ReconnectUnlessRefreshRaises ==
    callback.pc = "done" =>
        IF callback.return_code = 0
        THEN /\ callback.attempts = 0
             /\ callback.raised = "none"
             /\ Handler.credential = callback.before
             /\ Handler.session = "Disconnected"
        ELSE IF callback.raised = "FileNotFoundError"
        THEN /\ Handler.kind = "Google"
             /\ callback.attempts = 0
             /\ Handler.credential = callback.before
        ELSE /\ callback.attempts = 1
             /\ Handler.kind = "Aws" =>
                    Handler.credential = callback.before
             /\ Handler.kind = "Azure" =>
                    Handler.credential = AzureAdapter_generate_sas_token(now)
             /\ Handler.kind = "Google" =>
                    Handler.credential = GoogleAdapter_create_jwt(now)

\* C5 witness: a handler given a non-zero code has replaced the credential
\* and made its one reconnect attempt.
C5_Witness ==
    /\ callback.pc = "done"
    /\ callback.return_code # 0
    /\ callback.attempts = 1
    /\ Handler.credential # callback.before

\* The clock reading a credential was built from.
Issued(credential) ==
    IF credential.kind = "sas"
    THEN credential.expiry - expiry
    ELSE credential.expiry - exp_minutes * 60 * TicksPerSecond

\* The clock as the adapter reads it: whole seconds for the SAS token.
Reading(kind) == IF kind = "Azure" THEN now \div TicksPerSecond ELSE now

\* The handler in the frame was given a non-zero code and got past the
\* rebuilding of the credential.
Refreshed ==
    /\ callback.pc = "done"
    /\ callback.return_code # 0
    /\ callback.raised # "FileNotFoundError"

C7_DisconnectFailureRecoveredLocally ==
    (callback.pc = "done" /\ callback.return_code # 0
        /\ Handler.session # "Connected")
    => callback.raised = "none"

\* C8: a factory call that fails, for whatever reason, raises
\* ProviderInstantiationError and no other type; it fails whenever the
\* name, the key file, the TLS material or the connect fails; for a name
\* that is not a provider no session is created and no connect attempted.
C8_FactoryRaisesOnlyProviderInstantiationError ==
    factory.called =>
        /\ ~factory.result.ok =>
               factory.result.error = "ProviderInstantiationError"
        /\ factory.result.ok =>
               /\ factory.data.name \in {"aws", "azure", "google"}
               /\ factory.env.tls
               /\ factory.env.connect = "ok"
               /\ factory.data.name # "aws" => factory.env.key
        /\ factory.data.name \notin {"aws", "azure", "google"} =>
               /\ ~factory.result.session
               /\ ~factory.result.connected

\* C8 witness: the factory has failed on an Azure key file it cannot read.
C8_Witness ==
    /\ factory.called
    /\ factory.data.name = "azure"
    /\ ~factory.env.key
    /\ ~factory.result.ok

\* C9: for a validated configuration the construction of the hub ends
\* either with every configured adapter built and connected, or with
\* ProviderInstantiationError and no hub: never a hub with a part of them.
C9_HubAllOrNothing ==
    /\ hub # "ready" => providers = <<>>
    /\ hub = "ready" =>
           /\ hubError = "none"
           /\ Len(providers) = Len(configuration.providers)
           /\ events = 0 =>
                  \A i \in DOMAIN providers : providers[i].session = "Connected"
    /\ (hub = "failed" /\ CONFIGURATION_SCHEMA(configuration)) =>
           hubError = "ProviderInstantiationError"

\* C9 witness: the construction has failed after an adapter was built.
C9_Witness ==
    /\ hub = "failed"
    /\ Len(built) >= 1
    /\ providers = <<>>

\* The class name without "Adapter" for a provider name of the schema.
KindNamed(name) ==
    IF name = "aws" THEN "Aws" ELSE IF name = "azure" THEN "Azure" ELSE "Google"

\* C10: a hub built from N records holds N adapters, the i-th of the cloud
\* the i-th record names, and holds them in every later state, after any
\* broadcast, broadcast_to_subtopic and disconnect event.
C10_AdaptersMatchConfiguration ==
    hub = "ready" =>
        /\ Len(providers) = Len(configuration.providers)
        /\ \A i \in DOMAIN providers :
               /\ providers[i].kind = KindNamed(configuration.providers[i].name)
               /\ providers[i].device_name = configuration.device_name

\* C10 witness: a hub of two adapters of different clouds after a
\* broadcast and a disconnect event.
C10_Witness ==
    /\ hub = "ready"
    /\ Len(providers) = 2
    /\ providers[1].kind # providers[2].kind
    /\ events = 2
    /\ bc.pc = "returned"
    /\ providers[2].session = "Disconnected"

\* The base path of C11 as claimed, without a separator at its end.
ClaimedBase(kind, device_name) ==
    CASE kind = "Aws" ->
             "devices/" \o device_location \o "/" \o device_name \o "/events"
      [] kind = "Azure" -> "devices/" \o device_name \o "/messages/events"
      [] kind = "Google" -> "/devices/" \o device_name \o "/events"

\* The prefix every topic of an adapter starts with.
TopicPrefix(kind, device_name) ==
    CASE kind = "Aws" -> device_location \o "/" \o device_name \o "/events/"
      [] kind = "Azure" -> "devices/" \o device_name \o "/messages/events/"
      [] kind = "Google" -> "/devices/" \o device_name \o "/events/"

C12_GoogleSubtopicTopic ==
    \A i \in DOMAIN bc.futures :
        (/\ providers[i].kind = "Google"
         /\ bc.method = "publish_to_subtopic"
         /\ Truthy(bc.topic)
         /\ bc.futures[i].state = "finished"
         /\ bc.futures[i].result.tag # "exc")
        => \A k \in DOMAIN bc.futures[i].handed :
               bc.futures[i].handed[k].topic =
                   "/devices/" \o configuration.device_name \o "/events/"
                       \o bc.topic.s

\* C12 witness: in the second event of the hub a Google adapter whose
\* credential is not the one of clock reading 0 has handed its session the
\* topic of subtopic "status".
C12_Witness ==
    /\ events = 2
    /\ \E i \in DOMAIN bc.futures :
         /\ providers[i].kind = "Google"
         /\ providers[i].credential.expiry > exp_minutes * 60 * TicksPerSecond
         /\ bc.method = "publish_to_subtopic"
         /\ Len(bc.futures[i].handed) = 1
         /\ bc.futures[i].handed[1].topic = "/devices/d1/events/status"

\* C13: for every message, the empty mapping included, and every topic,
\* the empty string included, broadcast calls each adapter's publish once
\* with that message and broadcast_to_subtopic calls each adapter's
\* publish_to_subtopic once with that message and that topic: the
\* arguments reach the method as given, none dropped or moved, so the
\* method body runs and no call ends in a TypeError.
C13_ArgumentsForwardedUnchanged ==
    \A i \in DOMAIN bc.futures :
        /\ bc.arguments = IF bc.method = "publish"
                          THEN <<bc.message>>
                          ELSE <<bc.message, bc.topic>>
        /\ bc.futures[i].state = "finished" =>
               bc.futures[i].result.tag # "exc"

\* C14: while the on_disconnect handler of an adapter, called with a
\* non-zero return code, is in progress (credential refresh, then
\* reconnect), no publish task of that adapter executes on its session: a
\* task of the adapter that is in the pool with a message it can hand to
\* the session does not run its publish before the handler is over.
C14_NoPublishWhileHandling ==
    [][\A i \in DOMAIN bc.futures :
          (/\ callback.pc = "handling"
           /\ callback.return_code # 0
           /\ callback.adapter = i
           /\ bc.futures[i].state = "running"
           /\ WellFormedCall
           /\ json_dumps(bc.message).tag # "exc")
          => bc'.futures[i].state = "running"]_vars

\* C15: broadcast and broadcast_to_subtopic return only after every task
\* dispatched for the call, one for each adapter, has completed by
\* returning or raising: in the state where the call returns no task is
\* pending or running, also when a task has failed before the others
\* ended.
C15_ReturnAfterEveryTask ==
    /\ bc.pc # "idle" => Len(bc.futures) = Len(providers)
    /\ bc.pc = "returned" =>
           \A i \in DOMAIN bc.futures : bc.futures[i].state = "finished"

\* C15 witness: a broadcast over two adapters has returned with the first
\* task failed and the second succeeded.
C15_Witness ==
    /\ bc.pc = "returned"
    /\ Len(bc.futures) = 2
    /\ ~IsTrue(bc.futures[1].result)
    /\ IsTrue(bc.futures[2].result)
    /\ bc.futures[2].state = "finished"

\* C16: the tasks of one broadcast that execute at the same time are never
\* more than max_workers, whatever the number of adapters; a task beyond
\* that number waits in the queue; a task that has ended is not executed
\* again; and, every publish ending, each task of the call is eventually
\* executed.
C16_PoolBoundsRunningTasks ==
    /\ [](/\ Cardinality(Running(bc.futures)) <= max_workers
          /\ Pending(bc.futures) # {} => Len(bc.futures) > max_workers
          /\ \A i \in Pending(bc.futures), j \in DOMAIN bc.futures :
                 j > i => bc.futures[j].state = "pending")
    /\ [][\A i \in DOMAIN bc.futures :
             /\ bc.futures[i].state = "finished" =>
                    (bc'.pc # "idle" => bc'.futures[i] = bc.futures[i])
             /\ bc.futures[i].state = "running" =>
                    bc'.futures[i].state # "pending"]_vars
    /\ (bc.pc = "running") ~>
           (/\ bc.pc = "running"
            /\ \A i \in DOMAIN bc.futures : bc.futures[i].state = "finished")

\* C16 witness: max_workers tasks are running while a task waits in the
\* queue, an earlier task having ended.
C16_Witness ==
    /\ Cardinality(Running(bc.futures)) = max_workers
    /\ Pending(bc.futures) # {}
    /\ \E i \in DOMAIN bc.futures : bc.futures[i].state = "finished"

\* C17: in a built hub the credential and the session state of an adapter
\* change only in a step of the disconnect event of that very adapter (the
\* loss of the connection, then its handler, whether it succeeds or
\* fails): every other adapter is left as it was; and no step of a
\* broadcast, the publish of a task included, changes the credential or
\* the session state of any adapter.
C17_AdapterIsolation ==
    [][(hub = "ready" /\ hub' = "ready") =>
          /\ DOMAIN providers' = DOMAIN providers
          /\ \A j \in DOMAIN providers :
                 providers'[j] # providers[j] =>
                     /\ callback' # callback
                     /\ callback'.pc \in {"handling", "done"}
                     /\ callback'.adapter = j
                     /\ callback'.others
          /\ bc' # bc => providers' = providers]_vars

\* C17 witness: in a hub of two adapters the handler of the first has
\* replaced its credential while the task of the second, whose publish
\* has ended, is in the pool; the second adapter is still connected.
C17_Witness ==
    /\ callback.pc = "done"
    /\ callback.adapter = 1
    /\ Len(providers) = 2
    /\ Handler.credential # callback.before
    /\ providers[2].session = "Connected"
    /\ bc.pc = "running"
    /\ bc.futures[2].state = "finished"
    /\ Len(bc.futures[2].handed) = 1

\* C18: the hub builds its adapters in the order of the configuration, so
\* the connects are made in that order, one for a record at most; when
\* the construction of a record fails the hub construction ends there:
\* no connect is made for a record after it, and the sessions opened for
\* the records before it stay connected, held by no hub.
C18_ConstructionStopsAtFirstFailure ==
    /\ \A k, l \in DOMAIN connects : k < l => connects[k] < connects[l]
    /\ hub = "constructing" =>
           \A k \in DOMAIN connects : connects[k] <= Len(built)
    /\ (hub = "failed" /\ CONFIGURATION_SCHEMA(configuration)) =>
           /\ Len(built) < Len(configuration.providers)
           /\ \A k \in DOMAIN connects : connects[k] <= Len(built) + 1
           /\ \A i \in DOMAIN built :
                  /\ \E k \in DOMAIN connects : connects[k] = i
                  /\ built[i].session = "Connected"
           /\ providers = <<>>
           /\ ~ENABLED MessageHubProvider

\* C18 witness: the construction has failed at the second of two records,
\* after the session of the first was opened.
C18_Witness ==
    /\ hub = "failed"
    /\ Len(configuration.providers) = 2
    /\ Len(built) = 1
    /\ built[1].session = "Connected"
    /\ connects[1] = 1

====
